---- MODULE Spec2Model ----
(***************************************************************************)
(* Model of the layered matching index of package tree (Build / Search,    *)
(* the ordered and keyed level builders and the binary-search selection     *)
(* functions GE, LE, GEs, LEs, InRange).                                    *)
(*                                                                         *)
(* Several state machines share the module:                                *)
(*   PickSpec  applies one selection function to a sorted key sequence;     *)
(*   Spec      builds a tree from a record list and a list of level         *)
(*             builders, then runs Search one loop iteration per step;      *)
(*   ConcSpec  runs two Search calls over one built tree, interleaved;      *)
(*   FailSpec  runs Build with a key extractor that may panic;              *)
(*   LineSpec  runs the worker pool Line[T] of package parallel;            *)
(*   RecSpec   builds from a list holding an explicit DataNodeBuilder;      *)
(*   TwoSpec   builds two trees from one builder list.                      *)
(* Go slices are 0-based; sequences here are 1-based, so l[i] of the code   *)
(* is l[i + 1] below.                                                      *)
(***************************************************************************)
EXTENDS Integers, Sequences, FiniteSets, TLC

VARIABLES
    items,      \* PickSpec: the []ListItem[K, V] argument, ascending unique keys
    left,       \* PickSpec: the key argument (left bound of InRange)
    right,      \* PickSpec: the right bound of InRange
    op,         \* PickSpec: which selection function was called
    out,        \* PickSpec: what the call returned
    list,       \* Build's argument list []D
    builder,    \* Build's argument builder []NodeBuilder[Q, D] (unloaded templates)
    root,       \* the Node returned by Build
    pc,         \* position of the Build / Search caller
    query,      \* Search's argument query
    queue,      \* Search's local queue
    res,        \* Search's named result res
    dequeued,   \* number of completed iterations of Search's loop
    cquery,     \* ConcSpec: the query of each concurrent Search call
    cqueue,     \* ConcSpec: the local queue of each concurrent Search call
    cres,       \* ConcSpec: the result res of each concurrent Search call
    cpc,        \* ConcSpec: the position of each concurrent Search call
    failing,    \* FailSpec: the <<field, record>> pairs on which a GroupKey extractor panics
    size,       \* LineSpec: Line.size, the number of worker goroutines
    nitems,     \* LineSpec: how many items the producer sends before close(supplier)
    outcome,    \* LineSpec: what action(item) does for each item
    ctxDone,    \* LineSpec: ctx.Done() is closed
    canceledAt, \* LineSpec: how many items had been received when ctx was canceled
    sent,       \* LineSpec: number of completed sends on supplier
    closed,     \* LineSpec: supplier is closed
    closeView,  \* LineSpec: the writes of anyErr that happen before close(supplier)
    mainPc,     \* LineSpec: position of the goroutine that calls Run, sends and Waits
    ret,        \* LineSpec: the error returned by Wait
    wpc,        \* LineSpec: position of each worker goroutine
    witem,      \* LineSpec: params of each worker (0: none)
    calls,      \* LineSpec: number of calls of action per item
    callers,    \* LineSpec: the workers that called action per item
    earlyFail,  \* LineSpec: an action call failed while items were still unsent
    done,       \* LineSpec: Line.done, one entry per buffered token
    hist,       \* LineSpec: the writes of Line.anyErr in the order they were made
    view,       \* LineSpec: per goroutine, the writes of anyErr that happen before it
    list2,      \* TwoSpec: the record list of the second Build from the same builder list
    root2,      \* TwoSpec: the Node returned by the second Build
    before      \* TwoSpec: what Search on the first tree returned before the second Build

pickVars == <<items, left, right, op, out>>
treeVars == <<list, builder, root, pc, query, queue, res, dequeued>>
concVars == <<cquery, cqueue, cres, cpc>>
failVars == <<failing>>
twoVars == <<list2, root2, before>>
lineConf == <<size, nitems, outcome>>
lineVars == <<size, nitems, outcome, ctxDone, canceledAt, sent, closed, closeView, mainPc, ret,
              wpc, witem, calls, callers, earlyFail, done, hist, view>>
vars == <<items, left, right, op, out, list, builder, root, pc, query, queue, res, dequeued,
          cquery, cqueue, cres, cpc, failing,
          size, nitems, outcome, ctxDone, canceledAt, sent, closed, closeView, mainPc, ret,
          wpc, witem, calls, callers, earlyFail, done, hist, view, list2, root2, before>>

---------------------------------------------------------------------------
(* Bounds *)

\* longest record list handed to Build
MaxRecords == 3
\* keys of the stand-alone sorted sequences are drawn from 1..MaxItemKey
MaxItemKey == 3

\* group keys a record field can hold, and the keys a query can ask for
\* (one below and one above every group key)
Keys == {1, 2}
QueryKeys == {0, 1, 2, 3}
\* level i of a tree groups on record field i
Fields == {1, 2}

ItemKeys == 1..MaxItemKey
Targets == 0..(MaxItemKey + 1)
ItemVals == {"A", "B"}

\* zero value of a type parameter (nil for an interface, slice or map)
Nil == "nil"

---------------------------------------------------------------------------
(* sort.Search and the selection functions of node.go *)

RECURSIVE SearchLoop(_, _, _)
SearchLoop(i, j, f) ==
    IF i < j
    THEN LET h == (i + j) \div 2
         IN  IF ~f[h] THEN SearchLoop(h + 1, j, f) ELSE SearchLoop(i, h, f)
    ELSE i

\* sort.Search(n, f): smallest index in [0, n) at which f is true, else n
SortSearch(n, f) == SearchLoop(0, n, f)

\* findLeftBound comparing with > in place of >=
findLeftBound_gt(l, key) ==
    SortSearch(Len(l), [i \in 0..(Len(l) - 1) |-> l[i + 1].Key > key])

findLeftBound(l, key) ==
    SortSearch(Len(l), [i \in 0..(Len(l) - 1) |-> l[i + 1].Key >= key])

\* findRightBound comparing with >= in place of >
findRightBound_strict(l, key) ==
    SortSearch(Len(l), [i \in 0..(Len(l) - 1) |-> l[i + 1].Key >= key]) - 1

findRightBound(l, key) ==
    SortSearch(Len(l), [i \in 0..(Len(l) - 1) |-> l[i + 1].Key > key]) - 1

\* the run-time check of the slice expression l[lo:hi]
SliceInBounds(l, lo, hi) == 0 <= lo /\ lo <= hi /\ hi <= Len(l)

\* the values of l[lo:hi], in order (for range ... append(res, item.Val))
SliceVals(l, lo, hi) == [i \in 1..(hi - lo) |-> l[lo + i].Val]

\* a multi-valued selection either panics or returns a slice of values
Picked(l, lo, hi) ==
    IF SliceInBounds(l, lo, hi)
    THEN [panic |-> FALSE, res |-> SliceVals(l, lo, hi)]
    ELSE [panic |-> TRUE, res |-> <<>>]

GE(key, l) ==
    LET idx == findLeftBound(l, key)
    IN  IF idx < Len(l)
        THEN [res |-> l[idx + 1].Val, ok |-> TRUE]
        ELSE [res |-> Nil, ok |-> FALSE]

LE(key, l) ==
    LET idx == findRightBound(l, key)
    IN  IF idx >= 0
        THEN [res |-> l[idx + 1].Val, ok |-> TRUE]
        ELSE [res |-> Nil, ok |-> FALSE]

\* a single-valued selection function passed by name
CallObj(obj, k, li) ==
    CASE obj = "GE" -> GE(k, li)
      [] obj = "LE" -> LE(k, li)

PickOneWrapper(obj, k, li) ==
    LET r == CallObj(obj, k, li)
    IN  IF r.ok
        THEN [panic |-> FALSE, res |-> <<r.res>>]
        ELSE [panic |-> FALSE, res |-> <<>>]

GEs(key, l) ==
    LET idx == findLeftBound(l, key)
    IN  Picked(l, idx, Len(l))

\* LEs slicing l[:idx] in place of l[:idx+1]
LEs_exclusive(key, l) ==
    LET idx == findRightBound(l, key)
    IN  IF idx >= 0 THEN Picked(l, 0, idx) ELSE [panic |-> FALSE, res |-> <<>>]

LEs(key, l) ==
    LET idx == findRightBound(l, key)
    IN  IF idx >= 0 THEN Picked(l, 0, idx + 1) ELSE [panic |-> FALSE, res |-> <<>>]

\* InRange slicing l[leftIdx:rightIdx+1] in place of l[leftIdx:rightIdx]
InRange_inclusive(lo, hi, l) ==
    LET leftIdx == findLeftBound(l, lo)
        rightIdx == findLeftBound(l, hi)
    IN  Picked(l, leftIdx, rightIdx + 1)

InRange(lo, hi, l) ==
    LET leftIdx == findLeftBound(l, lo)
        rightIdx == findLeftBound(l, hi)
    IN  Picked(l, leftIdx, rightIdx)

---------------------------------------------------------------------------
(* Sorting and grouping helpers of node.go *)

Min(S) == CHOOSE x \in S : \A y \in S : x <= y

\* sort.Slice(keys, keys[i] < keys[j]) over the distinct keys of a group map
RECURSIVE SortKeys(_)
SortKeys(S) ==
    IF S = {} THEN <<>> ELSE <<Min(S)>> \o SortKeys(S \ {Min(S)})

\* groupBy(l, key): key -> the items with that key, in their order in l
RECURSIVE groupByFrom(_, _, _, _)
groupByFrom(l, field, i, acc) ==
    IF i > Len(l)
    THEN acc
    ELSE LET k == l[i][field]
             old == IF k \in DOMAIN acc THEN acc[k] ELSE <<>>
         IN  groupByFrom(l, field, i + 1,
                 [x \in DOMAIN acc \cup {k} |->
                     IF x = k THEN Append(old, l[i]) ELSE acc[x]])

\* groupBy assigning []V{item} in place of append(res[key(item)], item)
RECURSIVE groupByOverwriteFrom(_, _, _, _)
groupByOverwriteFrom(l, field, i, acc) ==
    IF i > Len(l)
    THEN acc
    ELSE LET k == l[i][field]
         IN  groupByOverwriteFrom(l, field, i + 1,
                 [x \in DOMAIN acc \cup {k} |->
                     IF x = k THEN <<l[i]>> ELSE acc[x]])

groupBy_overwrite(l, field) == groupByOverwriteFrom(l, field, 1, <<>>)

groupBy(l, field) == groupByFrom(l, field, 1, <<>>)

---------------------------------------------------------------------------
(* Builders: templates, Load, Push, Node (tree.go, node.go) *)

\* the unloaded builder Build appends: DataNodeBuilder[Q, D]{}
DataNodeBuilder == [kind |-> "data", Data |-> <<>>]

\* UniqueMapNode(queryKey, groupKey) with both extractors reading field f
UniqueMapNode(f) ==
    [kind |-> "map", Pick |-> [fn |-> "Unique", queryKey |-> f], GroupKey |-> f]

\* a SortedNodeBuilder whose Pick applies selection function fn to queryKey(q);
\* UniqueSortedNode(queryKey, GE or LE, groupKey) for fn = "GE", "LE"
UniqueSortedNode(fn, f) ==
    [kind |-> "sorted", Pick |-> [fn |-> fn, queryKey |-> f], GroupKey |-> f]

DataLoad(l) == [kind |-> "data", Data |-> l]

\* Load that leaves the collected keys in descending order
SortedLoad_descending(s, l) ==
    LET group == groupBy(l, s.GroupKey)
        keys == SortKeys(DOMAIN group)
        n == Len(keys)
    IN  [kind |-> "sorted", Pick |-> s.Pick, GroupKey |-> s.GroupKey,
         data |-> [i \in 1..n |-> [Key |-> keys[n + 1 - i], Val |-> group[keys[n + 1 - i]]]],
         next |-> [i \in 1..n |-> 0]]

SortedLoad(s, l) ==
    LET group == groupBy(l, s.GroupKey)
        keys == SortKeys(DOMAIN group)
    IN  [kind |-> "sorted", Pick |-> s.Pick, GroupKey |-> s.GroupKey,
         data |-> [i \in 1..Len(keys) |-> [Key |-> keys[i], Val |-> group[keys[i]]]],
         next |-> [i \in 1..Len(keys) |-> 0]]

MapLoad(m, l) ==
    LET group == groupBy(l, m.GroupKey)
    IN  [kind |-> "map", Pick |-> m.Pick, GroupKey |-> m.GroupKey,
         data |-> group,
         next |-> <<>>]

\* NodeBuilder.Load, dispatched on the builder's dynamic type
Load(b, l) ==
    CASE b.kind = "data" -> DataLoad(l)
      [] b.kind = "sorted" -> SortedLoad(b, l)
      [] b.kind = "map" -> MapLoad(b, l)

\* Builders live in a heap (a sequence; a builder's id is its index, 0 is nil):
\* the next slice and next map of a loaded builder are shared by every copy of
\* the struct, so Push through one copy is seen by the parent's Node().

\* the keys of map m in the iteration order given by ranking ord
IterKeys(m, ord) == SelectSeq(ord, LAMBDA k : k \in DOMAIN m)

\* Push that loads next with the builder's records and returns it
DataPush_loads(heap, id, nextTpl, ord) ==
    [heap |-> Append(heap, Load(nextTpl, heap[id].Data)), builders |-> <<Len(heap) + 1>>]

\* DataNodeBuilder.Push: return nil
DataPush(heap, id, nextTpl, ord) == [heap |-> heap, builders |-> <<>>]

\* Push that stores the child of the i-th group at the mirrored position
SortedPush_mirrored(heap, id, nextTpl, ord) ==
    LET s == heap[id]
        n == Len(s.data)
        base == Len(heap)
        loaded == [i \in 1..n |-> Load(nextTpl, s.data[i].Val)]
        ids == [i \in 1..n |-> base + (n + 1 - i)]
    IN  [heap |-> [heap EXCEPT ![id].next = ids] \o loaded,
         builders |-> [i \in 1..n |-> base + i]]

SortedPush(heap, id, nextTpl, ord) ==
    LET s == heap[id]
        n == Len(s.data)
        base == Len(heap)
        loaded == [i \in 1..n |-> Load(nextTpl, s.data[i].Val)]
        ids == [i \in 1..n |-> base + i]
    IN  [heap |-> [heap EXCEPT ![id].next = ids] \o loaded,
         builders |-> ids]

MapPush(heap, id, nextTpl, ord) ==
    LET m == heap[id]
        first == IterKeys(m.data, ord.load)
        base == Len(heap)
        loaded == [i \in 1..Len(first) |-> Load(nextTpl, m.data[first[i]])]
        idOf == [k \in DOMAIN m.data |->
                    base + (CHOOSE i \in 1..Len(first) : first[i] = k)]
        second == IterKeys(idOf, ord.collect)
    IN  [heap |-> [heap EXCEPT ![id].next = idOf] \o loaded,
         builders |-> [i \in 1..Len(second) |-> idOf[second[i]]]]

\* NodeBuilder.Push, dispatched on the dynamic type of heap[id]
Push(heap, id, nextTpl, ord) ==
    CASE heap[id].kind = "data" -> DataPush(heap, id, nextTpl, ord)
      [] heap[id].kind = "sorted" -> SortedPush(heap, id, nextTpl, ord)
      [] heap[id].kind = "map" -> MapPush(heap, id, nextTpl, ord)

\* NodeBuilder.Node: the finalized node below builder id; calling Node() on a
\* nil child panics
RECURSIVE NodeOf(_, _)
NodeOf(heap, id) ==
    IF id = 0
    THEN [kind |-> "nilpanic"]
    ELSE LET b == heap[id]
         IN  CASE b.kind = "data" -> [kind |-> "data", Data |-> b.Data]
               [] b.kind = "sorted" ->
                    [kind |-> "sorted", Pick |-> b.Pick,
                     Data |-> [i \in 1..Len(b.data) |->
                                  [Key |-> b.data[i].Key, Val |-> NodeOf(heap, b.next[i])]]]
               [] b.kind = "map" ->
                    [kind |-> "map", Pick |-> b.Pick,
                     Data |-> [k \in DOMAIN b.data |->
                                  NodeOf(heap, IF k \in DOMAIN b.next THEN b.next[k] ELSE 0)]]

\* the inner loop of Build: Push nextTpl on every builder of current
RECURSIVE PushAll(_, _, _, _, _)
PushAll(heap, current, i, nextTpl, ord) ==
    IF i > Len(current)
    THEN [heap |-> heap, builders |-> <<>>]
    ELSE LET addition == Push(heap, current[i], nextTpl, ord)
             rest == PushAll(addition.heap, current, i + 1, nextTpl, ord)
         IN  [heap |-> rest.heap, builders |-> addition.builders \o rest.builders]

\* the outer loop of Build over builder[1:]
RECURSIVE BuildLayers(_, _, _, _, _)
BuildLayers(heap, current, b, i, ord) ==
    IF i > Len(b)
    THEN heap
    ELSE LET next == PushAll(heap, current, 1, b[i], ord)
         IN  BuildLayers(next.heap, next.builders, b, i + 1, ord)

\* Build without the appended DataNodeBuilder
Build_noDataLevel(l, b, ord) ==
    IF b = <<>>
    THEN NodeOf(<<>>, 0)
    ELSE NodeOf(BuildLayers(<<Load(b[1], l)>>, <<1>>, b, 2, ord), 1)

\* Build(list, builder); ord is the iteration order of the Go maps
Build(l, b, ord) ==
    LET all == b \o <<DataNodeBuilder>>
        rootBuilder == Load(all[1], l)
        heap == BuildLayers(<<rootBuilder>>, <<1>>, all, 2, ord)
    IN  NodeOf(heap, 1)

---------------------------------------------------------------------------
(* Nodes: Leaf, Next and the Pick closures *)

\* DataNode.Leaf testing len(n.Data) > 1 in place of len(n.Data) != 0
Leaf_moreThanOne(n) ==
    IF n.kind = "data"
    THEN [data |-> n.Data, ok |-> Len(n.Data) > 1]
    ELSE [data |-> <<>>, ok |-> FALSE]

\* DataNode.Leaf, and EmptyNode.Leaf for the level nodes that embed it
Leaf(n) ==
    IF n.kind = "data"
    THEN [data |-> n.Data, ok |-> Len(n.Data) # 0]
    ELSE [data |-> <<>>, ok |-> FALSE]

\* the Pick closure returning some child without looking up queryKey(q)
UniqueMapPick_any(k, m) ==
    IF DOMAIN m # {}
    THEN [panic |-> FALSE, res |-> <<m[Min(DOMAIN m)]>>]
    ELSE [panic |-> FALSE, res |-> <<>>]

\* the Pick closure of UniqueMapNode
UniqueMapPick(k, m) ==
    IF k \in DOMAIN m
    THEN [panic |-> FALSE, res |-> <<m[k]>>]
    ELSE [panic |-> FALSE, res |-> <<>>]

\* n.Pick(query, n.Data)
ApplyPick(pick, q, data) ==
    LET k == q.key[pick.queryKey]
    IN  CASE pick.fn = "Unique" -> UniqueMapPick(k, data)
          [] pick.fn = "GE" -> PickOneWrapper("GE", k, data)
          [] pick.fn = "LE" -> PickOneWrapper("LE", k, data)
          [] pick.fn = "GEs" -> GEs(k, data)
          [] pick.fn = "LEs" -> LEs(k, data)
          [] pick.fn = "InRange" -> InRange(k, q.hi, data)

\* Next with a DataNode that returns itself as its child
Next_again(n, q) ==
    IF n.kind = "data"
    THEN [panic |-> FALSE, res |-> <<n>>]
    ELSE ApplyPick(n.Pick, q, n.Data)

\* DataNode.Next, SortedNode.Next, MapNode.Next
Next(n, q) ==
    IF n.kind = "data"
    THEN [panic |-> FALSE, res |-> <<>>]
    ELSE ApplyPick(n.Pick, q, n.Data)

---------------------------------------------------------------------------
(* PickSpec: one call of a selection function on a sorted sequence *)

\* every ascending sequence of ListItem with unique keys, the empty one included
SortedItems ==
    UNION { { [i \in 1..Cardinality(S) |-> [Key |-> SortKeys(S)[i], Val |-> v[SortKeys(S)[i]]]] :
                v \in [S -> ItemVals] } : S \in SUBSET ItemKeys }

Idle == [panic |-> FALSE, res |-> <<>>]

\* the goroutines that call Search on one root at the same time
Searchers == {1, 2}
NoNode == [kind |-> "none"]
NoQuery == [key |-> [f \in Fields |-> 0], hi |-> 0]

ConcIdle ==
    /\ cquery = [s \in Searchers |-> NoQuery]
    /\ cqueue = [s \in Searchers |-> <<>>]
    /\ cres = [s \in Searchers |-> <<>>]
    /\ cpc = [s \in Searchers |-> "idle"]

FailIdle == failing = {}

TwoIdle ==
    /\ list2 = <<>>
    /\ root2 = [kind |-> "none"]
    /\ before = <<>>

MaxSize == 2
MaxItems == 2
Workers == 1..MaxSize
Main == 0
Goroutines == {Main} \cup Workers
NoErr == [kind |-> "nil", item |-> 0]

LineIdle ==
    /\ size = 0
    /\ nitems = 0
    /\ outcome = <<>>
    /\ ctxDone = FALSE
    /\ canceledAt = -1
    /\ sent = 0
    /\ closed = FALSE
    /\ closeView = {}
    /\ mainPc = "idle"
    /\ ret = NoErr
    /\ wpc = [w \in Workers |-> "off"]
    /\ witem = [w \in Workers |-> 0]
    /\ calls = <<>>
    /\ callers = <<>>
    /\ earlyFail = FALSE
    /\ done = <<>>
    /\ hist = <<>>
    /\ view = [g \in Goroutines |-> {}]

TreeIdle ==
    /\ list = <<>>
    /\ builder = <<>>
    /\ root = NoNode
    /\ pc = "idle"
    /\ query = NoQuery
    /\ queue = <<>>
    /\ res = <<>>
    /\ dequeued = 0

PickInit ==
    /\ items \in SortedItems
    /\ left \in Targets
    /\ right \in Targets
    /\ op = "idle"
    /\ out = Idle
    /\ TreeIdle
    /\ LineIdle
    /\ TwoIdle
    /\ ConcIdle
    /\ FailIdle

CallGE ==
    /\ op = "idle"
    /\ op' = "GE"
    /\ out' = GE(left, items)
    /\ UNCHANGED <<items, left, right>>
    /\ UNCHANGED treeVars
    /\ UNCHANGED concVars
    /\ UNCHANGED failVars
    /\ UNCHANGED lineVars
    /\ UNCHANGED twoVars

CallLE ==
    /\ op = "idle"
    /\ op' = "LE"
    /\ out' = LE(left, items)
    /\ UNCHANGED <<items, left, right>>
    /\ UNCHANGED treeVars
    /\ UNCHANGED concVars
    /\ UNCHANGED failVars
    /\ UNCHANGED lineVars
    /\ UNCHANGED twoVars

CallPickOneGE ==
    /\ op = "idle"
    /\ op' = "PickOneGE"
    /\ out' = PickOneWrapper("GE", left, items)
    /\ UNCHANGED <<items, left, right>>
    /\ UNCHANGED treeVars
    /\ UNCHANGED concVars
    /\ UNCHANGED failVars
    /\ UNCHANGED lineVars
    /\ UNCHANGED twoVars

CallGEs ==
    /\ op = "idle"
    /\ op' = "GEs"
    /\ out' = GEs(left, items)
    /\ UNCHANGED <<items, left, right>>
    /\ UNCHANGED treeVars
    /\ UNCHANGED concVars
    /\ UNCHANGED failVars
    /\ UNCHANGED lineVars
    /\ UNCHANGED twoVars

CallLEs ==
    /\ op = "idle"
    /\ op' = "LEs"
    /\ out' = LEs(left, items)
    /\ UNCHANGED <<items, left, right>>
    /\ UNCHANGED treeVars
    /\ UNCHANGED concVars
    /\ UNCHANGED failVars
    /\ UNCHANGED lineVars
    /\ UNCHANGED twoVars

CallInRange ==
    /\ op = "idle"
    /\ op' = "InRange"
    /\ out' = InRange(left, right, items)
    /\ UNCHANGED <<items, left, right>>
    /\ UNCHANGED treeVars
    /\ UNCHANGED concVars
    /\ UNCHANGED failVars
    /\ UNCHANGED lineVars
    /\ UNCHANGED twoVars

CallPickOneLE ==
    /\ op = "idle"
    /\ op' = "PickOneLE"
    /\ out' = PickOneWrapper("LE", left, items)
    /\ UNCHANGED <<items, left, right>>
    /\ UNCHANGED treeVars
    /\ UNCHANGED concVars
    /\ UNCHANGED failVars
    /\ UNCHANGED lineVars
    /\ UNCHANGED twoVars

PickNext ==
    \/ CallGE
    \/ CallLE
    \/ CallPickOneGE
    \/ CallPickOneLE
    \/ CallGEs
    \/ CallLEs
    \/ CallInRange

PickSpec == PickInit /\ [][PickNext]_vars

---------------------------------------------------------------------------
(* Spec: Build once, then Search one loop iteration per step *)

\* a record is its tuple of field values
Records == [Fields -> Keys]
RecordLists == UNION { [1..n -> Records] : n \in 0..MaxRecords }

\* what a level can select with: exact lookup in a keyed level, or one of the
\* five selection functions in an ordered level
Policies == {"Unique", "GE", "LE", "GEs", "LEs", "InRange"}

LevelBuilder(fn, f) ==
    IF fn = "Unique" THEN UniqueMapNode(f) ELSE UniqueSortedNode(fn, f)

\* builder lists of every length up to the number of fields; level i reads field i
BuilderLists ==
    UNION { { [i \in 1..n |-> LevelBuilder(p[i], i)] : p \in [1..n -> Policies] } :
              n \in 0..Cardinality(Fields) }

\* a query carries one key per field and the right bound used by InRange levels
Queries == [key : [Fields -> QueryKeys], hi : QueryKeys]

\* the orders in which a Go map over Keys can be iterated
KeyOrders ==
    { o \in [1..Cardinality(Keys) -> Keys] : \A i, j \in DOMAIN o : i # j => o[i] # o[j] }

PickIdle ==
    /\ items = <<>>
    /\ left = 0
    /\ right = 0
    /\ op = "idle"
    /\ out = Idle

Init ==
    /\ list \in RecordLists
    /\ builder \in BuilderLists
    /\ root = NoNode
    /\ pc = "start"
    /\ query = NoQuery
    /\ queue = <<>>
    /\ res = <<>>
    /\ dequeued = 0
    /\ PickIdle
    /\ LineIdle
    /\ TwoIdle
    /\ ConcIdle
    /\ FailIdle

\* tree := Build(list, builder)
DoBuild ==
    /\ pc = "start"
    /\ \E o1 \in KeyOrders, o2 \in KeyOrders :
           root' = Build(list, builder, [load |-> o1, collect |-> o2])
    /\ pc' = "built"
    /\ UNCHANGED <<list, builder, query, queue, res, dequeued>>
    /\ UNCHANGED pickVars
    /\ UNCHANGED failVars
    /\ UNCHANGED lineVars
    /\ UNCHANGED twoVars
    /\ UNCHANGED concVars

\* Search(root, q) is entered: queue := []Node{root}
SearchStart ==
    /\ pc = "built"
    /\ \E q \in Queries : query' = q
    /\ queue' = <<root>>
    /\ res' = <<>>
    /\ dequeued' = 0
    /\ pc' = "searching"
    /\ UNCHANGED <<list, builder, root>>
    /\ UNCHANGED pickVars
    /\ UNCHANGED failVars
    /\ UNCHANGED lineVars
    /\ UNCHANGED twoVars
    /\ UNCHANGED concVars

\* the loop body with res = append(val, res...) in place of append(res, val...)
SearchLoopBody_prepend ==
    /\ pc = "searching"
    /\ Len(queue) > 0
    /\ LET leaf == Leaf(queue[1])
           nxt == Next(queue[1], query)
       IN  /\ res' = IF leaf.ok THEN leaf.data \o res ELSE res
           /\ IF nxt.panic
              THEN /\ pc' = "panicked"
                   /\ UNCHANGED <<queue, dequeued>>
              ELSE /\ queue' = Tail(queue \o nxt.res)
                   /\ dequeued' = dequeued + 1
                   /\ pc' = pc
    /\ UNCHANGED <<list, builder, root, query>>
    /\ UNCHANGED pickVars
    /\ UNCHANGED failVars
    /\ UNCHANGED lineVars
    /\ UNCHANGED twoVars
    /\ UNCHANGED concVars

\* one iteration of Search's loop, its post statement queue = queue[1:] included;
\* a panic inside Next leaves Search without a result
SearchLoopBody ==
    /\ pc = "searching"
    /\ Len(queue) > 0
    /\ LET leaf == Leaf(queue[1])
           nxt == Next(queue[1], query)
       IN  /\ res' = IF leaf.ok THEN res \o leaf.data ELSE res
           /\ IF nxt.panic
              THEN /\ pc' = "panicked"
                   /\ UNCHANGED <<queue, dequeued>>
              ELSE /\ queue' = Tail(queue \o nxt.res)
                   /\ dequeued' = dequeued + 1
                   /\ pc' = pc
    /\ UNCHANGED <<list, builder, root, query>>
    /\ UNCHANGED pickVars
    /\ UNCHANGED failVars
    /\ UNCHANGED lineVars
    /\ UNCHANGED twoVars
    /\ UNCHANGED concVars

\* the loop condition fails and Search returns res
SearchReturn ==
    /\ pc = "searching"
    /\ Len(queue) = 0
    /\ pc' = "returned"
    /\ UNCHANGED <<list, builder, root, query, queue, res, dequeued>>
    /\ UNCHANGED pickVars
    /\ UNCHANGED failVars
    /\ UNCHANGED lineVars
    /\ UNCHANGED twoVars
    /\ UNCHANGED concVars

TreeNext ==
    \/ DoBuild
    \/ SearchStart
    \/ SearchLoopBody
    \/ SearchReturn

Spec == Init /\ [][TreeNext]_vars

---------------------------------------------------------------------------
(* ConcSpec: several Search calls on one built root, interleaved at the *)
(* granularity of one loop iteration                                     *)

\* longest record list of a tree that is searched concurrently
MaxConcRecords == 2

ConcLists == UNION { [1..n -> Records] : n \in 0..MaxConcRecords }
ConcPolicies == {"Unique", "LE", "GEs"}
ConcBuilders ==
    UNION { { [i \in 1..n |-> LevelBuilder(p[i], i)] : p \in [1..n -> ConcPolicies] } :
              n \in 0..Cardinality(Fields) }
ConcQueries == {q \in Queries : q.hi = 0 /\ \A f \in Fields : q.key[f] \in {0, 1, 2}}

\* t with every occurrence of node n replaced by node m
RECURSIVE Replace(_, _, _)
Replace(t, n, m) ==
    IF t = n THEN m
    ELSE CASE t.kind = "sorted" ->
                [t EXCEPT !.Data = [i \in DOMAIN t.Data |->
                    [Key |-> t.Data[i].Key, Val |-> Replace(t.Data[i].Val, n, m)]]]
           [] t.kind = "map" ->
                [t EXCEPT !.Data = [k \in DOMAIN t.Data |-> Replace(t.Data[k], n, m)]]
           [] OTHER -> t

\* a loop body that empties the Record Node it has read
TreeAfterLoopBody_drain(t, n) ==
    IF n.kind = "data" THEN Replace(t, n, [kind |-> "data", Data |-> <<>>]) ELSE t

\* the tree t after one iteration of Search's loop on node n: the body assigns
\* only the locals queue and res (res starts nil, so append(res, val...) copies
\* val into an array of its own), and Leaf and Next only read n
TreeAfterLoopBody(t, n) == t

ConcInit ==
    /\ list \in ConcLists
    /\ builder \in ConcBuilders
    /\ root = NoNode
    /\ pc = "start"
    /\ query = NoQuery
    /\ queue = <<>>
    /\ res = <<>>
    /\ dequeued = 0
    /\ PickIdle
    /\ LineIdle
    /\ TwoIdle
    /\ ConcIdle
    /\ FailIdle

\* goroutine s enters Search(root, q)
ConcSearchStart(s) ==
    /\ pc = "built"
    /\ cpc[s] = "idle"
    /\ \E q \in ConcQueries : cquery' = [cquery EXCEPT ![s] = q]
    /\ cqueue' = [cqueue EXCEPT ![s] = <<root>>]
    /\ cres' = [cres EXCEPT ![s] = <<>>]
    /\ cpc' = [cpc EXCEPT ![s] = "searching"]
    /\ UNCHANGED treeVars
    /\ UNCHANGED pickVars
    /\ UNCHANGED failVars
    /\ UNCHANGED lineVars
    /\ UNCHANGED twoVars

\* goroutine s runs one iteration of Search's loop
ConcSearchLoopBody(s) ==
    /\ cpc[s] = "searching"
    /\ Len(cqueue[s]) > 0
    /\ LET leaf == Leaf(cqueue[s][1])
           nxt == Next(cqueue[s][1], cquery[s])
       IN  /\ cres' = [cres EXCEPT ![s] = IF leaf.ok THEN @ \o leaf.data ELSE @]
           /\ IF nxt.panic
              THEN /\ cpc' = [cpc EXCEPT ![s] = "panicked"]
                   /\ UNCHANGED cqueue
              ELSE /\ cqueue' = [cqueue EXCEPT ![s] = Tail(@ \o nxt.res)]
                   /\ cpc' = cpc
    /\ root' = TreeAfterLoopBody(root, cqueue[s][1])
    /\ UNCHANGED <<list, builder, pc, query, queue, res, dequeued, cquery>>
    /\ UNCHANGED pickVars
    /\ UNCHANGED failVars
    /\ UNCHANGED lineVars
    /\ UNCHANGED twoVars

\* goroutine s leaves the loop and returns res
ConcSearchReturn(s) ==
    /\ cpc[s] = "searching"
    /\ Len(cqueue[s]) = 0
    /\ cpc' = [cpc EXCEPT ![s] = "returned"]
    /\ UNCHANGED <<cquery, cqueue, cres>>
    /\ UNCHANGED treeVars
    /\ UNCHANGED pickVars
    /\ UNCHANGED failVars
    /\ UNCHANGED lineVars
    /\ UNCHANGED twoVars

ConcNext ==
    \/ DoBuild
    \/ \E s \in Searchers : ConcSearchStart(s)
    \/ \E s \in Searchers : ConcSearchLoopBody(s)
    \/ \E s \in Searchers : ConcSearchReturn(s)

ConcSpec == ConcInit /\ [][ConcNext]_vars

---------------------------------------------------------------------------
(* FailSpec: Build with a record-key extractor that panics on some record *)

\* no extractor fails, or the extractor of one field panics on one record
Failings == {{}} \cup { {<<f, r>>} : f \in Fields, r \in Records }

\* groupBy panics when key(item) panics for an item of l
groupByPanics(l, field, bad) == \E i \in DOMAIN l : <<field, l[i]>> \in bad

\* Load panics when its groupBy does; DataNodeBuilder.Load calls no extractor
LoadPanics(b, l, bad) ==
    b.kind # "data" /\ groupByPanics(l, b.GroupKey, bad)

\* Push panics when one of its next.Load(group) calls does
PushPanics(heap, id, nextTpl, bad) ==
    CASE heap[id].kind = "sorted" ->
            \E i \in DOMAIN heap[id].data : LoadPanics(nextTpl, heap[id].data[i].Val, bad)
      [] heap[id].kind = "map" ->
            \E k \in DOMAIN heap[id].data : LoadPanics(nextTpl, heap[id].data[k], bad)
      [] OTHER -> FALSE

\* the outer loop of Build, left at the first Push that panics
RECURSIVE TryLayers(_, _, _, _, _, _)
TryLayers(heap, current, b, i, ord, bad) ==
    IF i > Len(b)
    THEN [panic |-> FALSE, heap |-> heap]
    ELSE IF \E j \in DOMAIN current : PushPanics(heap, current[j], b[i], bad)
         THEN [panic |-> TRUE, heap |-> heap]
         ELSE LET next == PushAll(heap, current, 1, b[i], ord)
              IN  TryLayers(next.heap, next.builders, b, i + 1, ord, bad)

\* Build that recovers from the panic and returns what rootBuilder.Node() gives
TryBuild_recover(l, b, ord, bad) ==
    LET all == b \o <<DataNodeBuilder>>
    IN  IF LoadPanics(all[1], l, bad)
        THEN [panic |-> FALSE, node |-> [kind |-> "nilpanic"]]
        ELSE LET r == TryLayers(<<Load(all[1], l)>>, <<1>>, all, 2, ord, bad)
             IN  [panic |-> FALSE, node |-> NodeOf(r.heap, 1)]

\* Build(list, builder) with extractors that may panic: Build has no recover,
\* so a panic leaves it without a return value
TryBuild(l, b, ord, bad) ==
    LET all == b \o <<DataNodeBuilder>>
    IN  IF LoadPanics(all[1], l, bad)
        THEN [panic |-> TRUE, node |-> NoNode]
        ELSE LET r == TryLayers(<<Load(all[1], l)>>, <<1>>, all, 2, ord, bad)
             IN  IF r.panic
                 THEN [panic |-> TRUE, node |-> NoNode]
                 ELSE [panic |-> FALSE, node |-> NodeOf(r.heap, 1)]

FailInit ==
    /\ list \in RecordLists
    /\ builder \in BuilderLists
    /\ failing \in Failings
    /\ root = NoNode
    /\ pc = "start"
    /\ query = NoQuery
    /\ queue = <<>>
    /\ res = <<>>
    /\ dequeued = 0
    /\ PickIdle
    /\ LineIdle
    /\ TwoIdle
    /\ ConcIdle

\* root := Build(list, builder) returns
BuildReturns ==
    /\ pc = "start"
    /\ \E o1 \in KeyOrders, o2 \in KeyOrders :
          LET r == TryBuild(list, builder, [load |-> o1, collect |-> o2], failing)
          IN  /\ ~r.panic
              /\ root' = r.node
    /\ pc' = "built"
    /\ UNCHANGED <<list, builder, query, queue, res, dequeued>>
    /\ UNCHANGED pickVars
    /\ UNCHANGED concVars
    /\ UNCHANGED failVars
    /\ UNCHANGED lineVars
    /\ UNCHANGED twoVars

\* Build(list, builder) panics: the assignment to root does not happen
BuildPanics ==
    /\ pc = "start"
    /\ \E o1 \in KeyOrders, o2 \in KeyOrders :
          TryBuild(list, builder, [load |-> o1, collect |-> o2], failing).panic
    /\ pc' = "buildPanicked"
    /\ UNCHANGED <<list, builder, root, query, queue, res, dequeued>>
    /\ UNCHANGED pickVars
    /\ UNCHANGED concVars
    /\ UNCHANGED failVars
    /\ UNCHANGED lineVars
    /\ UNCHANGED twoVars

FailNext ==
    \/ BuildReturns
    \/ BuildPanics

FailSpec == FailInit /\ [][FailNext]_vars

---------------------------------------------------------------------------
(* LineSpec: the worker pool Line[T]                                        *)
(*                                                                         *)
(* One goroutine calls Run, sends nitems items on the unbuffered supplier,  *)
(* closes it and calls Wait; Run starts size workers.  Line.anyErr is       *)
(* written and read by several goroutines without synchronisation: a read   *)
(* returns any write that is not overwritten by a write that happens before *)
(* the read.  hist holds the writes, view[g] the writes that happen before  *)
(* goroutine g's current position; channel operations carry views.          *)

Sizes == 1..MaxSize
Outcomes == {"ok", "err", "panic"}
ErrOf(i) == [kind |-> "error", item |-> i]
PanicErr(i) == [kind |-> "panic", item |-> i]
Canceled == [kind |-> "context canceled", item |-> 0]

\* the writes of anyErr that a read by goroutine g may return
Readable(g) ==
    { j \in DOMAIN hist : \A k \in view[g] : j \notin hist[k].seen }

\* a.anyErr = v by goroutine g
WriteAnyErr(g, v) ==
    /\ hist' = Append(hist, [val |-> v, seen |-> view[g]])
    /\ view' = [view EXCEPT ![g] = @ \cup {Len(hist) + 1}]

\* an unbuffered send and its receive happen before each other's completion
Rendezvous(g, h) ==
    view' = [view EXCEPT ![g] = view[g] \cup view[h], ![h] = view[g] \cup view[h]]

LineInit ==
    /\ size \in Sizes
    /\ nitems \in 0..MaxItems
    /\ outcome \in [1..nitems -> Outcomes]
    /\ ctxDone = FALSE
    /\ canceledAt = -1
    /\ sent = 0
    /\ closed = FALSE
    /\ closeView = {}
    /\ mainPc = "run"
    /\ ret = NoErr
    /\ wpc = [w \in Workers |-> "off"]
    /\ witem = [w \in Workers |-> 0]
    /\ calls = [i \in 1..nitems |-> 0]
    /\ callers = [i \in 1..nitems |-> {}]
    /\ earlyFail = FALSE
    /\ done = <<>>
    /\ hist = <<[val |-> NoErr, seen |-> {}]>>
    /\ view = [g \in Goroutines |-> {1}]
    /\ PickIdle
    /\ TreeIdle
    /\ ConcIdle
    /\ FailIdle
    /\ TwoIdle

restVars == <<pickVars, treeVars, concVars, failVars, twoVars>>

\* Run: start size goroutines
Run ==
    /\ mainPc = "run"
    /\ mainPc' = "send"
    /\ wpc' = [w \in Workers |-> IF w <= size THEN "recv" ELSE "off"]
    /\ UNCHANGED <<lineConf, ctxDone, canceledAt, sent, closed, closeView, ret, witem,
                   calls, callers, earlyFail, done, hist, view>>
    /\ UNCHANGED restVars

\* cancel() of the context, by anyone at any time
Cancel ==
    /\ mainPc # "run"
    /\ ~ctxDone
    /\ ctxDone' = TRUE
    /\ canceledAt' = sent
    /\ UNCHANGED <<lineConf, sent, closed, closeView, mainPc, ret, wpc, witem,
                   calls, callers, earlyFail, done, hist, view>>
    /\ UNCHANGED restVars

\* a receive that hands every worker the first item
Receive_first(w) ==
    /\ wpc[w] = "recv"
    /\ mainPc = "send"
    /\ sent < nitems
    /\ sent' = sent + 1
    /\ witem' = [witem EXCEPT ![w] = 1]
    /\ wpc' = [wpc EXCEPT ![w] = "checkCtx"]
    /\ Rendezvous(Main, w)
    /\ UNCHANGED <<lineConf, ctxDone, canceledAt, closed, closeView, mainPc, ret,
                   calls, callers, earlyFail, done, hist>>
    /\ UNCHANGED restVars

\* supplier <- item meets params := range supplier of worker w
Receive(w) ==
    /\ wpc[w] = "recv"
    /\ mainPc = "send"
    /\ sent < nitems
    /\ sent' = sent + 1
    /\ witem' = [witem EXCEPT ![w] = sent + 1]
    /\ wpc' = [wpc EXCEPT ![w] = "checkCtx"]
    /\ Rendezvous(Main, w)
    /\ UNCHANGED <<lineConf, ctxDone, canceledAt, closed, closeView, mainPc, ret,
                   calls, callers, earlyFail, done, hist>>
    /\ UNCHANGED restVars

\* close(supplier)
Close ==
    /\ mainPc = "send"
    /\ sent = nitems
    /\ closed' = TRUE
    /\ closeView' = view[Main]
    /\ mainPc' = "wait"
    /\ UNCHANGED <<lineConf, ctxDone, canceledAt, sent, ret, wpc, witem,
                   calls, callers, earlyFail, done, hist, view>>
    /\ UNCHANGED restVars

\* range supplier ends: the worker returns and its deferred function runs
RangeEnd(w) ==
    /\ wpc[w] = "recv"
    /\ closed
    /\ wpc' = [wpc EXCEPT ![w] = "signal"]
    /\ view' = [view EXCEPT ![w] = @ \cup closeView]
    /\ UNCHANGED <<lineConf, ctxDone, canceledAt, sent, closed, closeView, mainPc, ret, witem,
                   calls, callers, earlyFail, done, hist>>
    /\ UNCHANGED restVars

\* if a.isCanceled(ctx) { a.anyErr = errors.New("context canceled") }
CheckCtx(w) ==
    /\ wpc[w] = "checkCtx"
    /\ wpc' = [wpc EXCEPT ![w] = "readErr"]
    /\ IF ctxDone
       THEN WriteAnyErr(w, Canceled)
       ELSE UNCHANGED <<hist, view>>
    /\ UNCHANGED <<lineConf, ctxDone, canceledAt, sent, closed, closeView, mainPc, ret, witem,
                   calls, callers, earlyFail, done>>
    /\ UNCHANGED restVars

\* if a.anyErr != nil { a.drop(supplier); return }, else action(params) starts
ReadErr(w) ==
    /\ wpc[w] = "readErr"
    /\ \E j \in Readable(w) :
          IF hist[j].val # NoErr
          THEN /\ wpc' = [wpc EXCEPT ![w] = "drop"]
               /\ UNCHANGED <<calls, callers>>
          ELSE /\ wpc' = [wpc EXCEPT ![w] = "action"]
               /\ calls' = [calls EXCEPT ![witem[w]] = @ + 1]
               /\ callers' = [callers EXCEPT ![witem[w]] = @ \cup {w}]
    /\ UNCHANGED <<lineConf, ctxDone, canceledAt, sent, closed, closeView, mainPc, ret, witem,
                   earlyFail, done, hist, view>>
    /\ UNCHANGED restVars

\* err := action(params) returns or panics
ActionEnd(w) ==
    /\ wpc[w] = "action"
    /\ wpc' = [wpc EXCEPT ![w] = CASE outcome[witem[w]] = "ok" -> "recv"
                                   [] outcome[witem[w]] = "err" -> "setErr"
                                   [] OTHER -> "recover"]
    /\ earlyFail' = (earlyFail \/ (outcome[witem[w]] # "ok" /\ sent < nitems))
    /\ UNCHANGED <<lineConf, ctxDone, canceledAt, sent, closed, closeView, mainPc, ret, witem,
                   calls, callers, done, hist, view>>
    /\ UNCHANGED restVars

\* if err != nil { a.anyErr = err }
SetErr(w) ==
    /\ wpc[w] = "setErr"
    /\ WriteAnyErr(w, ErrOf(witem[w]))
    /\ wpc' = [wpc EXCEPT ![w] = "recv"]
    /\ UNCHANGED <<lineConf, ctxDone, canceledAt, sent, closed, closeView, mainPc, ret, witem,
                   calls, callers, earlyFail, done>>
    /\ UNCHANGED restVars

\* deferred: if msg := recover(); msg != nil { a.anyErr = fmt.Errorf("%v", msg) }
Recover(w) ==
    /\ wpc[w] = "recover"
    /\ WriteAnyErr(w, PanicErr(witem[w]))
    /\ wpc' = [wpc EXCEPT ![w] = "signal"]
    /\ UNCHANGED <<lineConf, ctxDone, canceledAt, sent, closed, closeView, mainPc, ret, witem,
                   calls, callers, earlyFail, done>>
    /\ UNCHANGED restVars

\* drop: for range supplier {} receives an item and discards it
DropReceive(w) ==
    /\ wpc[w] = "drop"
    /\ mainPc = "send"
    /\ sent < nitems
    /\ sent' = sent + 1
    /\ Rendezvous(Main, w)
    /\ UNCHANGED <<lineConf, ctxDone, canceledAt, closed, closeView, mainPc, ret, wpc, witem,
                   calls, callers, earlyFail, done, hist>>
    /\ UNCHANGED restVars

\* drop returns when supplier is closed; the worker returns
DropEnd(w) ==
    /\ wpc[w] = "drop"
    /\ closed
    /\ wpc' = [wpc EXCEPT ![w] = "signal"]
    /\ view' = [view EXCEPT ![w] = @ \cup closeView]
    /\ UNCHANGED <<lineConf, ctxDone, canceledAt, sent, closed, closeView, mainPc, ret, witem,
                   calls, callers, earlyFail, done, hist>>
    /\ UNCHANGED restVars

\* deferred: a.done <- struct{}{} (the buffer holds size tokens, so it never blocks)
Signal(w) ==
    /\ wpc[w] = "signal"
    /\ done' = Append(done, view[w])
    /\ wpc' = [wpc EXCEPT ![w] = "exited"]
    /\ UNCHANGED <<lineConf, ctxDone, canceledAt, sent, closed, closeView, mainPc, ret, witem,
                   calls, callers, earlyFail, hist, view>>
    /\ UNCHANGED restVars

\* Wait: <-a.done
WaitReceive ==
    /\ mainPc = "wait"
    /\ done # <<>>
    /\ done' = Tail(done)
    /\ view' = [view EXCEPT ![Main] = @ \cup Head(done)]
    /\ mainPc' = "waitRead"
    /\ UNCHANGED <<lineConf, ctxDone, canceledAt, sent, closed, closeView, ret, wpc, witem,
                   calls, callers, earlyFail, hist>>
    /\ UNCHANGED restVars

\* Wait: return a.anyErr
WaitReturn ==
    /\ mainPc = "waitRead"
    /\ \E j \in Readable(Main) : ret' = hist[j].val
    /\ mainPc' = "returned"
    /\ UNCHANGED <<lineConf, ctxDone, canceledAt, sent, closed, closeView, wpc, witem,
                   calls, callers, earlyFail, done, hist, view>>
    /\ UNCHANGED restVars

\* the steps of the goroutines of the pool and of its caller
LineStep ==
    \/ Run
    \/ Close
    \/ WaitReceive
    \/ WaitReturn
    \/ \E w \in Workers :
          \/ Receive(w)
          \/ RangeEnd(w)
          \/ CheckCtx(w)
          \/ ReadErr(w)
          \/ ActionEnd(w)
          \/ SetErr(w)
          \/ Recover(w)
          \/ DropReceive(w)
          \/ DropEnd(w)
          \/ Signal(w)

LineNext ==
    \/ LineStep
    \/ Cancel

LineSpec == LineInit /\ [][LineNext]_vars

---------------------------------------------------------------------------
(* RecSpec: Build and Search with an explicit DataNodeBuilder in the list *)

\* builder list b with DataNodeBuilder[Q, D]{} inserted after its first i levels
WithRecordBuilder(b, i) ==
    SubSeq(b, 1, i) \o <<DataNodeBuilder>> \o SubSeq(b, i + 1, Len(b))

ExplicitBuilderLists ==
    UNION { { WithRecordBuilder(b, i) : i \in 0..Len(b) } : b \in BuilderLists }

RecInit ==
    /\ list \in ConcLists
    /\ builder \in ExplicitBuilderLists
    /\ root = NoNode
    /\ pc = "start"
    /\ query = NoQuery
    /\ queue = <<>>
    /\ res = <<>>
    /\ dequeued = 0
    /\ PickIdle
    /\ LineIdle
    /\ TwoIdle
    /\ ConcIdle
    /\ FailIdle

RecSpec == RecInit /\ [][TreeNext]_vars

---------------------------------------------------------------------------
(* TwoSpec: two Builds from one builder list, with Searches on the first tree *)

\* Build that appends the DataNodeBuilder to the caller's list itself
BuilderAfterBuild_appended(b) == b \o <<DataNodeBuilder>>

\* the caller's builder list after Build: Build appends to copyBuilder, and
\* Load, a value-receiver method, returns a new builder and leaves its template
BuilderAfterBuild(b) == b

MaxSecondRecords == 1

\* the record lists of the second Build
SecondLists == UNION { [1..n -> Records] : n \in 0..MaxSecondRecords }

TwoInit ==
    /\ list \in ConcLists
    /\ builder \in ConcBuilders
    /\ root = NoNode
    /\ pc = "start"
    /\ query = NoQuery
    /\ queue = <<>>
    /\ res = <<>>
    /\ dequeued = 0
    /\ TwoIdle
    /\ PickIdle
    /\ LineIdle
    /\ ConcIdle
    /\ FailIdle

\* root := Build(list, builder)
FirstBuild ==
    /\ pc = "start"
    /\ \E o1 \in KeyOrders, o2 \in KeyOrders :
           root' = Build(list, builder, [load |-> o1, collect |-> o2])
    /\ builder' = BuilderAfterBuild(builder)
    /\ pc' = "built"
    /\ UNCHANGED <<list, query, queue, res, dequeued>>
    /\ UNCHANGED <<pickVars, concVars, failVars, lineVars, twoVars>>

\* Search(root, q) is entered on the first tree
FirstSearch ==
    /\ pc = "built"
    /\ \E q \in ConcQueries : query' = q
    /\ queue' = <<root>>
    /\ res' = <<>>
    /\ dequeued' = 0
    /\ pc' = "searching"
    /\ UNCHANGED <<list, builder, root>>
    /\ UNCHANGED <<pickVars, concVars, failVars, lineVars, twoVars>>

\* root2 := Build(list2, builder), from the same builder list
SecondBuild ==
    /\ pc = "returned"
    /\ root2 = NoNode
    /\ \E l2 \in SecondLists, o1 \in KeyOrders, o2 \in KeyOrders :
           /\ list2' = l2
           /\ root2' = Build(l2, builder, [load |-> o1, collect |-> o2])
    /\ builder' = BuilderAfterBuild(builder)
    /\ before' = res
    /\ pc' = "rebuilt"
    /\ UNCHANGED <<list, root, query, queue, res, dequeued>>
    /\ UNCHANGED <<pickVars, concVars, failVars, lineVars>>

\* Search(root, query) is entered again on the first tree, with the same query
SearchAgain ==
    /\ pc = "rebuilt"
    /\ queue' = <<root>>
    /\ res' = <<>>
    /\ dequeued' = 0
    /\ pc' = "searching"
    /\ UNCHANGED <<list, builder, root, query>>
    /\ UNCHANGED <<pickVars, concVars, failVars, lineVars, twoVars>>

TwoNext ==
    \/ FirstBuild
    \/ FirstSearch
    \/ SearchLoopBody
    \/ SearchReturn
    \/ SecondBuild
    \/ SearchAgain

TwoSpec == TwoInit /\ [][TwoNext]_vars

---------------------------------------------------------------------------
(* Claims about the selection functions, checked under PickSpec *)

Max(S) == CHOOSE x \in S : \A y \in S : x >= y
ValsOf(l) == [i \in DOMAIN l |-> l[i].Val]
\* positions of items whose key is at least / at most k
AtLeast(k) == {i \in DOMAIN items : items[i].Key >= k}
AtMost(k) == {i \in DOMAIN items : items[i].Key <= k}
InHalfOpen(e) == left <= e.Key /\ e.Key < right
IsGE(e) == e.Key >= left
IsLE(e) == e.Key <= left

\* C3: InRange(left, right, l) never fails on a slice bound and returns exactly
\* the values whose key k satisfies left <= k < right, in ascending key order,
\* whatever the order of left and right.
C3_InRangeTotal ==
    op = "InRange" =>
        /\ ~out.panic
        /\ out.res = ValsOf(SelectSeq(items, InHalfOpen))

\* C4: GE(t, l) returns the value of the entry with the smallest key >= t and
\* true when such an entry exists, and reports not-found otherwise.
C4_GEFirstAtLeast ==
    /\ op = "GE" =>
        IF AtLeast(left) = {}
        THEN ~out.ok
        ELSE out.ok /\ out.res = items[Min(AtLeast(left))].Val
    /\ op = "PickOneGE" =>
        /\ ~out.panic
        /\ out.res = IF AtLeast(left) = {} THEN <<>>
                     ELSE <<items[Min(AtLeast(left))].Val>>

C4_Witness ==
    /\ op = "GE"
    /\ Len(items) = MaxItemKey
    /\ items[1].Val # items[2].Val
    /\ left = 2
    /\ out = [res |-> items[2].Val, ok |-> TRUE]

\* C5: LE(t, l) returns the value of the entry with the largest key <= t and
\* true when such an entry exists, and reports not-found otherwise; the Pick of
\* UniqueSortedNode(.., LE, ..) hands a query to exactly that entry's child.
C5_LELastAtMost ==
    /\ op = "LE" =>
        IF AtMost(left) = {}
        THEN ~out.ok
        ELSE out.ok /\ out.res = items[Max(AtMost(left))].Val
    /\ op = "PickOneLE" =>
        /\ ~out.panic
        /\ out.res = IF AtMost(left) = {} THEN <<>>
                     ELSE <<items[Max(AtMost(left))].Val>>

C5_Witness ==
    /\ op = "PickOneLE"
    /\ Len(items) = 2
    /\ items[1].Key = 1
    /\ items[2].Key = 3
    /\ items[1].Val # items[2].Val
    /\ left = 2
    /\ out.res = <<items[1].Val>>

\* C6: GEs(t, l) returns exactly the values of all entries with key >= t and
\* LEs(t, l) exactly those with key <= t, in ascending key order, and neither
\* fails when no entry qualifies.
C6_GEsLEsAll ==
    /\ op = "GEs" =>
        /\ ~out.panic
        /\ out.res = ValsOf(SelectSeq(items, IsGE))
    /\ op = "LEs" =>
        /\ ~out.panic
        /\ out.res = ValsOf(SelectSeq(items, IsLE))

C6_Witness ==
    /\ op = "LEs"
    /\ Len(items) = MaxItemKey
    /\ left = 2
    /\ Len(out.res) = 2
    /\ out.res[1] # out.res[2]

---------------------------------------------------------------------------
(* Claims about Build and Search, checked under Spec *)

\* the children of a node, keyed children in ascending key order
Children(n) ==
    CASE n.kind = "sorted" -> ValsOf(n.Data)
      [] n.kind = "map" ->
            [i \in 1..Cardinality(DOMAIN n.Data) |-> n.Data[SortKeys(DOMAIN n.Data)[i]]]
      [] OTHER -> <<>>

RECURSIVE Flatten(_)
Flatten(ss) == IF ss = <<>> THEN <<>> ELSE Head(ss) \o Flatten(Tail(ss))

\* the record lists of all Record Nodes below n, concatenated
RECURSIVE LeafRecords(_)
LeafRecords(n) ==
    IF n.kind = "data"
    THEN n.Data
    ELSE Flatten([i \in DOMAIN Children(n) |-> LeafRecords(Children(n)[i])])

\* the number of Record Nodes below n
RECURSIVE LeafCount(_)
LeafCount(n) ==
    IF n.kind = "data"
    THEN 1
    ELSE Len(Flatten([i \in DOMAIN Children(n) |->
                         [j \in 1..LeafCount(Children(n)[i]) |-> 0]]))

Count(r, l) == Cardinality({i \in DOMAIN l : l[i] = r})

\* C1: the Record Nodes of Build(R, L) partition R: as a multiset, the union
\* of all leaves' record lists equals R.
C1_LeavesPartitionRecords ==
    pc = "built" =>
        /\ Len(LeafRecords(root)) = Len(list)
        /\ \A r \in Records : Count(r, LeafRecords(root)) = Count(r, list)

C1_Witness ==
    /\ pc = "built"
    /\ Len(list) = MaxRecords
    /\ list[1] = list[2]
    /\ list[3] # list[1]
    /\ builder = <<UniqueSortedNode("GEs", 1), UniqueMapNode(2)>>
    /\ LeafCount(root) = 2

\* every level of the builder list is an exact-match (UniqueMapNode) level
AllExact == \A i \in DOMAIN builder : builder[i].kind = "map"

\* the linear-scan answer: r matches when its group key equals the query key at every level
MatchesExactly(r) ==
    \A i \in DOMAIN builder : r[builder[i].GroupKey] = query.key[builder[i].Pick.queryKey]

\* C2: for a tree of exact-match levels, Search returns exactly the records
\* whose group key equals the query key at every level (nothing when none does).
C2_ExactSearchIsLinearScan ==
    AllExact =>
        /\ pc # "panicked"
        /\ pc = "returned" => res = SelectSeq(list, MatchesExactly)

C2_Witness ==
    /\ pc = "returned"
    /\ AllExact
    /\ Len(builder) = 2
    /\ Len(list) = MaxRecords
    /\ Len(res) = 1
    /\ res[1] = list[2]

\* C7: Build([], L) succeeds and Search on its root returns an empty sequence
\* for every query.
C7_EmptyInputEmptyResult ==
    list = <<>> =>
        /\ pc = "built" => root.kind \in {"data", "sorted", "map"}
        /\ pc # "panicked"
        /\ res = <<>>
        /\ pc = "searching" => Len(queue) + dequeued = 1

C7_Witness ==
    /\ pc = "returned"
    /\ list = <<>>
    /\ Len(builder) = 2
    /\ builder[1].Pick.fn = "InRange"
    /\ query.key[1] > query.hi
    /\ res = <<>>

\* C8: Build(R, []) is a single Record Node holding R, and Search on it
\* returns R, in input order, for every query.
C8_NoLevelReturnsAll ==
    builder = <<>> =>
        /\ pc \in {"built", "searching", "returned"} => root = [kind |-> "data", Data |-> list]
        /\ pc # "panicked"
        /\ pc = "returned" => res = list

C8_Witness ==
    /\ pc = "returned"
    /\ builder = <<>>
    /\ Len(list) = MaxRecords
    /\ list[1] # list[2]
    /\ query.key[1] = 3
    /\ res = list

\* below n, every path runs through one level node per builder b[i], b[i+1], ...
\* (of that builder's kind, each with at least one child) and ends in a Record Node
RECURSIVE Layered(_, _, _)
Layered(n, b, i) ==
    IF i > Len(b)
    THEN n.kind = "data"
    ELSE /\ n.kind = b[i].kind
         /\ Children(n) # <<>>
         /\ \A j \in DOMAIN Children(n) : Layered(Children(n)[j], b, i + 1)

\* C9 as stated: for every R, the empty list included, every root-to-terminal
\* path of Build(R, L) has len(L) level nodes and ends in a Record Node.
C9_AlwaysLayered ==
    pc = "built" => Layered(root, builder, 1)

\* C9 amended: that holds for every non-empty R (and for L = []); Build([], L)
\* with L non-empty is a single level node of L[0]'s kind without children.
C9_LayeredUnlessEmpty ==
    pc = "built" =>
        IF list # <<>> \/ builder = <<>>
        THEN Layered(root, builder, 1)
        ELSE root.kind = builder[1].kind /\ Children(root) = <<>>

C9_Witness ==
    /\ pc = "built"
    /\ Len(list) = MaxRecords
    /\ Len(builder) = 2
    /\ Len(Children(root)) = 2
    /\ LeafCount(root) = 3

\* the number of nodes of the tree below and including n
RECURSIVE NodeCount(_)
NodeCount(n) ==
    1 + Len(Flatten([i \in DOMAIN Children(n) |->
                        [j \in 1..NodeCount(Children(n)[i]) |-> 0]]))

\* C10: Search terminates on every built root for every query, after at most
\* one dequeue per node of the tree, and never ends in a failure.
C10_SearchTerminatesWithoutFailure ==
    /\ pc # "panicked"
    /\ pc \in {"searching", "returned"} => dequeued + Len(queue) <= NodeCount(root)
    /\ pc = "returned" => queue = <<>>


\* the children n.Next(q) hands to Search (none when the selection panics)
Selected(n, q) == Next(n, q).res

\* the leaves reached from a layer of nodes, layer by layer: the records of the
\* layer's leaves, then those of the next layer (the children selected by the
\* layer's nodes, in layer order and in the order Next returns them)
RECURSIVE LayerOrder(_, _)
LayerOrder(nodes, q) ==
    IF nodes = <<>>
    THEN <<>>
    ELSE Flatten([i \in DOMAIN nodes |-> Leaf(nodes[i]).data])
         \o LayerOrder(Flatten([i \in DOMAIN nodes |-> Selected(nodes[i], q)]), q)

\* s keeps the relative order its elements have in l
RECURSIVE IsSubseq(_, _)
IsSubseq(s, l) ==
    IF s = <<>> THEN TRUE
    ELSE IF l = <<>> THEN FALSE
    ELSE IF Head(s) = Head(l) THEN IsSubseq(Tail(s), Tail(l))
    ELSE IsSubseq(s, Tail(l))

\* every Record Node below n lists its records in input order
RECURSIVE LeavesKeepOrder(_)
LeavesKeepOrder(n) ==
    IF n.kind = "data"
    THEN IsSubseq(n.Data, list)
    ELSE \A i \in DOMAIN Children(n) : LeavesKeepOrder(Children(n)[i])

\* every level selects at most one child
SingleValued == \A i \in DOMAIN builder : builder[i].Pick.fn \in {"Unique", "GE", "LE"}

InResult(r) == \E i \in DOMAIN res : res[i] = r

\* C11: Search's result is the concatenation, in breadth-first order, of the
\* record lists of the reached leaves; each leaf keeps the input order of its
\* records; with single-valued levels the matches come out in input order.
C11_ResultInBreadthFirstOrder ==
    /\ pc = "built" => LeavesKeepOrder(root)
    /\ pc = "returned" =>
        /\ res = LayerOrder(<<root>>, query)
        /\ SingleValued => res = SelectSeq(list, InResult)

C11_Witness ==
    /\ pc = "returned"
    /\ Len(list) = MaxRecords
    /\ builder = <<UniqueSortedNode("LEs", 1), UniqueSortedNode("GEs", 2)>>
    /\ res = <<list[2], list[3], list[1]>>
    /\ list[1] # list[2]
    /\ list[2] # list[3]
    /\ list[1] # list[3]


\* the tree Build returns for list and builder (the same for every map order)
BuiltTree == Build(list, builder, [load |-> SortKeys(Keys), collect |-> SortKeys(Keys)])

ExtractorFails ==
    \E i \in DOMAIN builder, j \in DOMAIN list : <<builder[i].GroupKey, list[j]>> \in failing

\* C13: when a record-key extractor fails while Build groups the records at
\* any level, Build does not return and the caller holds no root, not even a
\* partial one.
C13_FailedBuildReturnsNothing ==
    /\ ExtractorFails => pc # "built"
    /\ pc = "buildPanicked" => root = NoNode
    /\ pc = "built" => root = BuiltTree

C13_Witness ==
    /\ pc = "buildPanicked"
    /\ Len(list) = MaxRecords
    /\ Len(builder) = 2
    /\ failing = {<<2, list[3]>>}
    /\ list[3][2] # list[1][2]
    /\ list[3][2] # list[2][2]


---------------------------------------------------------------------------
(* Claims about the worker pool Line[T] *)

Started == 1..size
\* with the supplier closed, worker w runs no action call and can start none
Quiet(w) == wpc[w] \in {"recv", "drop", "signal", "exited"}
Running(w) == wpc[w] = "action"
Pending(i) == {w \in Started : witem[w] = i /\ wpc[w] \in {"checkCtx", "readErr"}}
FailedCalls == {i \in 1..nitems : calls[i] > 0 /\ outcome[i] # "ok"}
ErrorOfItem(i) == IF outcome[i] = "panic" THEN PanicErr(i) ELSE ErrOf(i)

\* C14: when Wait has returned, every worker started by Run has finished: no
\* call of action is running and none can still start.
C14_WaitAfterAllWorkers ==
    mainPc = "returned" => \A w \in Started : Quiet(w)

\* C15: when a call of action returned an error or panicked before the
\* supplier was drained, Wait returns a non-nil error; with a single failing
\* call and no cancellation it returns that call's error or panic message.
C15_FailureReported ==
    (mainPc = "returned" /\ earlyFail) =>
        /\ ret # NoErr
        /\ (~ctxDone /\ Cardinality(FailedCalls) = 1) =>
               \A i \in FailedCalls : ret = ErrorOfItem(i)

\* C16: the producer and Wait are never blocked for ever: until Wait has
\* returned, some goroutine of the pool or its caller can take a step,
\* whatever the actions do and whether or not the context is canceled.
C16_NeverBlockedForEver ==
    mainPc = "returned" \/ ENABLED LineStep

\* C17: when the context is canceled before any item is received, action is
\* never called, and Wait returns the error "context canceled".
C17_CanceledBeforeReceive ==
    canceledAt = 0 =>
        /\ \A i \in 1..nitems : calls[i] = 0
        /\ mainPc = "returned" => ret = Canceled

NoFailure == \A i \in 1..nitems : outcome[i] = "ok"

\* C18: when no call of action fails and the context is not canceled, every
\* item received from the supplier is passed to action exactly once, by one
\* worker; no more than size calls run at once; Wait returns nil; and when
\* all workers have exited every item has been passed to action.
C18_EachItemOnce ==
    (NoFailure /\ ~ctxDone /\ mainPc # "idle") =>
        /\ \A i \in 1..nitems :
              /\ i <= sent => calls[i] + Cardinality(Pending(i)) = 1
              /\ i > sent => calls[i] = 0
              /\ Cardinality(callers[i]) = calls[i]
        /\ Cardinality({w \in Workers : Running(w)}) <= size
        /\ mainPc = "returned" => ret = NoErr
        /\ (\A w \in Started : wpc[w] = "exited") => \A i \in 1..nitems : calls[i] = 1

C18_Witness ==
    /\ NoFailure
    /\ ~ctxDone
    /\ size = MaxSize
    /\ nitems = MaxItems
    /\ mainPc = "returned"
    /\ \A w \in Started : wpc[w] = "exited"
    /\ callers[1] = {2}
    /\ callers[nitems] = {1}


---------------------------------------------------------------------------
(* Claims about the level nodes of a built tree *)

\* the key set of level node n
NodeKeys(n) ==
    IF n.kind = "sorted" THEN {n.Data[i].Key : i \in DOMAIN n.Data} ELSE DOMAIN n.Data

\* the children of level node n that are paired with key k
ChildrenOf(n, k) ==
    IF n.kind = "sorted"
    THEN {n.Data[i].Val : i \in {j \in DOMAIN n.Data : n.Data[j].Key = k}}
    ELSE {n.Data[k]}

\* the number of (key, child) entries of level node n
Entries(n) ==
    IF n.kind = "sorted" THEN Len(n.Data) ELSE Cardinality(DOMAIN n.Data)

\* the records among recs whose field f is k, in the order of recs
GroupOf(recs, f, k) == SelectSeq(recs, LAMBDA r : r[f] = k)

GroupKeys(recs, f) == {recs[j][f] : j \in DOMAIN recs}

SameRecords(a, b) ==
    /\ Len(a) = Len(b)
    /\ \A r \in Records : Count(r, a) = Count(r, b)

\* node n of depth d was reached by recs: its keys are well formed, and so
\* are those of every level node below it
RECURSIVE KeysWellFormed(_, _, _)
KeysWellFormed(n, recs, d) ==
    n.kind # "data" =>
        /\ n.kind = "sorted" =>
              \A i \in 1..(Len(n.Data) - 1) : n.Data[i].Key < n.Data[i + 1].Key
        /\ \A k \in NodeKeys(n) : Cardinality(ChildrenOf(n, k)) = 1
        /\ Entries(n) = Cardinality(GroupKeys(recs, builder[d].GroupKey))
        /\ \A k \in NodeKeys(n) : \A c \in ChildrenOf(n, k) :
              KeysWellFormed(c, GroupOf(recs, builder[d].GroupKey, k), d + 1)

\* C19: in a built tree every ordered level node has strictly ascending keys,
\* every level node pairs each key with exactly one child, and the number of
\* children is the number of distinct groupKey values of the records that
\* reached the node.
C19_LevelKeysSortedUnique ==
    pc = "built" => KeysWellFormed(root, list, 1)

C19_Witness ==
    /\ pc = "built"
    /\ Len(builder) = 2
    /\ builder[1].kind = "sorted"
    /\ builder[2].kind = "map"
    /\ Len(list) = MaxRecords
    /\ list[1][1] = 2
    /\ list[2][1] = 1
    /\ list[3][1] = 2
    /\ Len(root.Data) = 2

\* node n of depth d was reached by recs: its keys are the group keys of recs
\* and the subtree paired with key k holds the records of recs with that key
RECURSIVE GroupsExact(_, _, _)
GroupsExact(n, recs, d) ==
    n.kind # "data" =>
        /\ NodeKeys(n) = GroupKeys(recs, builder[d].GroupKey)
        /\ \A k \in NodeKeys(n) : \A c \in ChildrenOf(n, k) :
              /\ SameRecords(LeafRecords(c), GroupOf(recs, builder[d].GroupKey, k))
              /\ GroupsExact(c, GroupOf(recs, builder[d].GroupKey, k), d + 1)

\* C20: in every level node of a built tree the child paired with key k holds
\* in its subtree exactly the records that reached the node and whose
\* groupKey is k.
C20_ChildHoldsItsGroup ==
    pc = "built" => GroupsExact(root, list, 1)

C20_Witness ==
    /\ pc = "built"
    /\ Len(builder) = 2
    /\ builder[1].kind = "sorted"
    /\ builder[2].kind = "sorted"
    /\ Len(list) = MaxRecords
    /\ list[1][1] = 2
    /\ list[2][1] = 1
    /\ list[3][1] = 2
    /\ list[1][2] # list[3][2]
    /\ SameRecords(LeafRecords(root.Data[2].Val), <<list[1], list[3]>>)
    /\ Len(root.Data[2].Val.Data) = 2


---------------------------------------------------------------------------
(* Claims about fan-out, leaves and the Record Builder *)

\* record r satisfies the predicate of level i for the current query
LevelHolds(r, i) ==
    LET v == r[builder[i].GroupKey]
        k == query.key[builder[i].Pick.queryKey]
        fn == builder[i].Pick.fn
    IN  CASE fn = "Unique" -> v = k
          [] fn = "GEs" -> v >= k
          [] fn = "LEs" -> v <= k
          [] fn = "InRange" -> k <= v /\ v < query.hi
          [] OTHER -> FALSE

Satisfies(r) == \A i \in DOMAIN builder : LevelHolds(r, i)

\* ordered levels select with GEs, LEs or InRange, keyed levels by exact lookup
FanOutLevels ==
    \A i \in DOMAIN builder : builder[i].Pick.fn \in {"Unique", "GEs", "LEs", "InRange"}

\* what Search returns is, as a multiset, the records satisfying every level
ReturnsTheMatches ==
    pc = "returned" => SameRecords(res, SelectSeq(list, Satisfies))

\* C21: for a tree of multi-valued ordered levels and exact keyed levels,
\* Search returns every input record that satisfies each level's predicate,
\* once per occurrence in the input, and no other record.
C21_FanOutReturnsExactlyTheMatches ==
    FanOutLevels =>
        /\ pc # "panicked"
        /\ ReturnsTheMatches

\* the nodes of the tree rooted at n
RECURSIVE NodesOf(_)
NodesOf(n) ==
    {n} \cup UNION { NodesOf(Children(n)[i]) : i \in DOMAIN Children(n) }

NonEmptyRecordNode(n) == n.kind = "data" /\ Len(n.Data) > 0

\* Leaf and Next on every node of the tree that Build returned
LeafOnlyOnRecords ==
    pc = "built" =>
        \A n \in NodesOf(root) :
            /\ Leaf(n).ok <=> NonEmptyRecordNode(n)
            /\ Leaf(n).ok => Leaf(n).data = n.Data
            /\ n.kind = "data" =>
                  \A q \in Queries : Next(n, q) = [panic |-> FALSE, res |-> <<>>]

\* one iteration of Search's loop on the node at the head of the queue
StepTakesOnlyRecords ==
    (pc = "searching" /\ pc' = "searching" /\ <<queue, res, dequeued>>' # <<queue, res, dequeued>>) =>
        /\ res' = res \o (IF queue[1].kind = "data" THEN queue[1].Data ELSE <<>>)
        /\ queue[1].kind = "data" => queue' = Tail(queue)

\* C22: Leaf() reports true exactly for Record Nodes with a non-empty record
\* list, Next on a Record Node returns no children, and each step of Search
\* takes records only from a Record Node and never descends below one.
C22_LeafExactlyNonEmptyRecordNodes ==
    /\ []LeafOnlyOnRecords
    /\ [][StepTakesOnlyRecords]_vars

C22_Witness ==
    /\ pc = "returned"
    /\ Len(builder) = 1
    /\ builder[1].kind = "sorted"
    /\ Len(list) = MaxRecords
    /\ Len(res) = 2
    /\ dequeued = 2

\* the position of the first explicit Record Builder of the list
FirstRecordBuilder == Min({i \in DOMAIN builder : builder[i].kind = "data"})

\* the level specifications listed before it
LevelsBefore == SubSeq(builder, 1, FirstRecordBuilder - 1)

KeyOrder == [load |-> SortKeys(Keys), collect |-> SortKeys(Keys)]

\* every builder that Build(list, builder) loads
LoadedBuilders ==
    LET all == builder \o <<DataNodeBuilder>>
    IN  BuildLayers(<<Load(all[1], list)>>, <<1>>, all, 2, KeyOrder)

\* C23: a Record Builder's Push loads nothing and returns no builders at any
\* position: Build with an explicit Record Builder in the list succeeds, loads
\* nothing for the specifications after it, and returns the tree of the
\* specifications before it, so Search gives the same result for every query.
C23_RecordBuilderEndsTheLevels ==
    /\ pc = "built" =>
          /\ root = Build(list, LevelsBefore, KeyOrder)
          /\ Len(LoadedBuilders) = NodeCount(root)
    /\ pc = "returned" =>
          res = LayerOrder(<<Build(list, LevelsBefore, KeyOrder)>>, query)

C23_Witness ==
    /\ pc = "returned"
    /\ Len(builder) = 3
    /\ builder[2].kind = "data"
    /\ builder[3].kind = "sorted"
    /\ Len(list) = MaxConcRecords
    /\ list[1][1] = list[2][1]
    /\ list[1][2] # list[2][2]
    /\ res = <<list[1], list[2]>>

\* the second Build has returned
Rebuilt == root2 # NoNode

\* the builder list is as the caller made it, the second tree is the tree of
\* its own records, and Search on the first tree repeats its earlier result
SecondBuildIndependent ==
    /\ builder \in ConcBuilders
    /\ pc = "rebuilt" => root2 = Build(list2, builder, KeyOrder)
    /\ (Rebuilt /\ pc = "returned") => res = before

\* no step changes the caller's builder list, and none changes the first tree
BuildFrame ==
    /\ builder' = builder
    /\ pc # "start" => root' = root

====
